---------------------------- MODULE Spec2Model ----------------------------
(***************************************************************************)
(* A model of the ingestion pipeline: scripts/generate_tags.py             *)
(* (_sanitize_tags, batch_generate_tags), scripts/chunk.py                 *)
(* (_build_chunk_context_header, _chunk_text_by_sentences,                 *)
(* _chunk_markdown, ingest_chunks), scripts/ingest_documents.py            *)
(* (_compute_content_hash, ingest_documents) and the in-memory store of    *)
(* scripts/fake_data_access.py.                                            *)
(*                                                                         *)
(* Each operation has its own specification over the shared variables:     *)
(* SpecTags, SpecChunk, SpecSanitize, SpecIngest, SpecIngestChunks; the     *)
(* variables of the operations that do not run keep their idle values.     *)
(*                                                                         *)
(* Conventions.                                                            *)
(*  - A Python list is a TLA+ sequence; Python index i is position i+1.    *)
(*  - A string that the code inspects character by character (a raw tag)   *)
(*    is a sequence of one-character strings.                              *)
(*  - A document content handed to batch_generate_tags is represented by   *)
(*    its token count, the only thing the batching code reads from it.     *)
(*  - The external collaborators (tokenizer, sentence splitter, header     *)
(*    splitter, chat completion) are inputs: their results are drawn from  *)
(*    bounded sets.                                                        *)
(***************************************************************************)
EXTENDS Integers, Sequences, FiniteSets, TLC

VARIABLES
    \* ---- batch_generate_tags (generate_tags.py) ----
    INPUT_MAX_TOKENS,       \* config.INPUT_MAX_TOKENS
    content_token_counts,   \* token count of each item of `contents`
    encoding_ok,            \* whether tiktoken.encoding_for_model(MODEL) succeeds
    pc,                     \* position in batch_generate_tags
    results,                \* the result buffer aligned to input indices
    returned,               \* the value returned by batch_generate_tags
    process_queue,          \* indices that fit the budget, ascending
    qpos,                   \* position (1-based) of the for loop in process_queue
    batch,                  \* indices of the batch being packed
    batch_tokens,           \* token cost of the batch being packed
    batch_indices,          \* argument of the flush_batch call in progress
    outcome,                \* what the generator call of the flush in progress produced
    contains_objects,       \* line 224: the response list holds a dict
    nread,                  \* entries of raw_results consumed so far (the index j)
    seen_object,            \* a dict entry has been consumed from this response
    item,                   \* the entry of raw_results consumed last
    calls,                  \* history: the batches sent to the generator, in order
    raised_items,           \* history: indices whose batch's call raised
    \* ---- _chunk_markdown (chunk.py) ----
    docs,                   \* splitter.split_text(markdown_text): the sections
    max_tokens,             \* the max_tokens argument
    cpc,                    \* position in _chunk_markdown
    doc_pos,                \* position (1-based) of the for loop in docs
    result,                 \* the list of chunks built so far; returned at the end
    \* ---- _sanitize_tags (generate_tags.py) ----
    raw_is_list,            \* isinstance(raw_tags, list)
    spc,                    \* position in _sanitize_tags
    san_nread,              \* items of raw_tags consumed so far
    san_is_str,             \* line 51: isinstance(item, str), for the item read last
    san_tag,                \* the local `tag` after line 56, for the item read last
    seen,                   \* the set `seen`
    san_result,             \* the list `result` of _sanitize_tags
    san_returned,           \* the value _sanitize_tags returned
    san_again,              \* the value of _sanitize_tags applied to san_returned
    \* ---- the store behind the DataAccessProvider (fake_data_access.py) ----
    db_documents,           \* project -> the stored Document, or NoDocument
    db_chunks,              \* the stored chunks, as records [id, document_id]
    next_id,                \* the ids handed out so far are 1..next_id - 1 (uuid4)
    \* ---- ingest_documents (ingest_documents.py) ----
    prepared_docs,          \* the list prepared_docs after the first pass
    concurrency,            \* the concurrency argument
    ipc,                    \* position in ingest_documents
    task_state,             \* per document, its generate_tags future: pending, done, yielded
    task_result,            \* per document, what its future holds once done
    handled,                \* history: per document, how often the loop body ran
    used_tags,              \* history: per document, the `tags` of its loop body
    upsert_raised,          \* history: documents whose upsert_document raised
    run,                    \* the number of this call of ingest_documents on the folder
    insert_failed,          \* history: documents whose embedding or chunk insert raised
    run_clean,              \* history: no loop body of this call met a failure
    \* ---- ingest_chunks (chunk.py) ----
    icpc,                   \* position in ingest_chunks
    document_id,            \* the document_id argument
    ic_calls,               \* the number of calls of ingest_chunks so far
    ic_before,              \* history: ids of the document's chunks at the call
    ic_delete_raised,       \* history: the delete of this call raised
    chunks_text,            \* len(chunks_text) of this call
    ic_inserted,            \* history: ids of the chunks this call inserted
    ic_returned,            \* the value ingest_chunks returned
    \* ---- prune_documents (prune_documents.py) ----
    skip_confirm,           \* "--yes" in sys.argv
    resp,                   \* the line input() returns when it is asked
    ppc,                    \* position in main
    tables,                 \* the ids of the rows of the tables chunks and documents
    attempts,               \* history: the calls of delete_all_rows, and whether each succeeded
    exit_code,              \* << >>, or << the argument of sys.exit >>
    chunks_empty,           \* line 53
    documents_empty         \* line 54

tagVars == << INPUT_MAX_TOKENS, content_token_counts, encoding_ok, pc, results,
              returned, process_queue, qpos, batch, batch_tokens, batch_indices,
              outcome, contains_objects, nread, seen_object, item, calls,
              raised_items >>

chunkVars == << docs, max_tokens, cpc, doc_pos, result >>

sanVars == << raw_is_list, spc, san_nread, san_is_str, san_tag, seen, san_result, san_returned,
              san_again >>

storeVars == << db_documents, db_chunks, next_id >>

ingestVars == << prepared_docs, concurrency, ipc, task_state, task_result,
                 handled, used_tags, upsert_raised >>

againVars == << run, insert_failed, run_clean >>

pruneVars == << skip_confirm, resp, ppc, tables, attempts, exit_code,
               chunks_empty, documents_empty >>

icVars == << icpc, document_id, ic_calls, ic_before, ic_delete_raised,
             chunks_text, ic_inserted, ic_returned >>

vars == << tagVars, chunkVars, sanVars, storeVars, ingestVars, againVars, icVars,
          pruneVars >>

\* What an action of batch_generate_tags, of _chunk_markdown, of _sanitize_tags
\* leaves alone.
nonTagVars == << chunkVars, sanVars, storeVars, ingestVars, againVars, icVars,
                pruneVars >>
nonChunkVars == << tagVars, sanVars, storeVars, ingestVars, againVars, icVars,
                  pruneVars >>
nonSanVars == << tagVars, chunkVars, storeVars, ingestVars, againVars, icVars,
                pruneVars >>
nonIngestVars == << tagVars, chunkVars, sanVars, icVars, pruneVars >>
nonIcVars == << tagVars, chunkVars, sanVars, ingestVars, againVars, pruneVars >>
nonPruneVars == << tagVars, chunkVars, sanVars, storeVars, ingestVars, againVars,
                  icVars >>

-----------------------------------------------------------------------------
(* Bounds of the model *)

\* Largest number of items in `contents`.
MaxItems == 2
\* Largest number of entries in one response's `results` list.
MaxEntries == 2
\* Largest number of sections the header splitter returns for a document.
MaxSections == 2
\* Largest number of sentences in one section.
MaxSentences == 2
\* Largest number of items in a raw tag list handed to _sanitize_tags.
MaxRawTags == 2
\* Largest number of characters in a raw tag string.
MaxTagLen == 4
\* Largest number of documents in prepared_docs.
MaxDocs == 2
\* Largest number of calls of ingest_chunks in a run.
MaxCalls == 2
\* Largest number of chunks _chunk_markdown returns to ingest_chunks.
MaxNewChunks == 2
\* Largest number of calls of ingest_documents on one folder.
MaxRuns == 2
\* Largest row id in a table that prune_documents empties.
MaxRowId == 1

-----------------------------------------------------------------------------
(* Generic helpers *)

Max(a, b) == IF a > b THEN a ELSE b

Range(s) == { s[k] : k \in 1..Len(s) }

\* All sequences over S of length 0..n.
SeqsUpTo(S, n) == UNION { [1..k -> S] : k \in 0..n }

-----------------------------------------------------------------------------
(* generate_tags.py: _sanitize_tags *)

UpperLetters == << "A","B","C","D","E","F","G","H","I","J","K","L","M",
                   "N","O","P","Q","R","S","T","U","V","W","X","Y","Z" >>
LowerLetters == << "a","b","c","d","e","f","g","h","i","j","k","l","m",
                   "n","o","p","q","r","s","t","u","v","w","x","y","z" >>
Digits == { "0","1","2","3","4","5","6","7","8","9" }

\* The characters str.strip() removes when called without argument.
PyWhitespace == { " ", "\t", "\n" }

\* The characters the class [a-z0-9_] of line 55 keeps.
TagChars == Range(LowerLetters) \cup Digits \cup { "_" }

\* str.lower() on one character.
LowerChar(c) ==
    IF c \in Range(UpperLetters)
    THEN LowerLetters[CHOOSE k \in 1..Len(UpperLetters) : UpperLetters[k] = c]
    ELSE c

Lower(s) == [k \in 1..Len(s) |-> LowerChar(s[k])]

RECURSIVE LStrip(_, _)
LStrip(s, cs) ==
    IF s = << >> \/ s[1] \notin cs THEN s ELSE LStrip(Tail(s), cs)

RECURSIVE RStrip(_, _)
RStrip(s, cs) ==
    IF s = << >> \/ s[Len(s)] \notin cs THEN s
    ELSE RStrip(SubSeq(s, 1, Len(s) - 1), cs)

\* str.strip(cs)
Strip(s, cs) == RStrip(LStrip(s, cs), cs)

\* str.replace(old, new) for one-character old and new.
Replace(s, old, new) == [k \in 1..Len(s) |-> IF s[k] = old THEN new ELSE s[k]]

\* re.sub(r"[^a-z0-9_]", "", tag)
KeepTagChars(s) == SelectSeq(s, LAMBDA c : c \in TagChars)

\* re.sub(r"_+", "_", tag)
RECURSIVE CollapseUnderscores(_)
CollapseUnderscores(s) ==
    IF Len(s) < 2 THEN s
    ELSE IF s[1] = "_" /\ s[2] = "_" THEN CollapseUnderscores(Tail(s))
    ELSE << s[1] >> \o CollapseUnderscores(Tail(s))

\* Variant of NormalizeTag: the underscores are stripped from the ends before
\* the separators are replaced, not after.
NormalizeTagStripBeforeReplace(s) ==
    LET t1 == Strip(Lower(Strip(s, PyWhitespace)), { "_" })
        t2 == Replace(Replace(t1, "-", "_"), " ", "_")
        t3 == KeepTagChars(t2)
    IN  CollapseUnderscores(t3)

\* Lines 53-56: the normal form of one string item.
NormalizeTag(s) ==
    LET t1 == Lower(Strip(s, PyWhitespace))
        t2 == Replace(Replace(t1, "-", "_"), " ", "_")
        t3 == KeepTagChars(t2)
    IN  Strip(CollapseUnderscores(t3), { "_" })

\* A raw tag value as decoded from JSON: raw.isList tells a list from any other
\* value; an item of the list is a string (isStr, chars) or any other value.
StrItem(chars) == [isStr |-> TRUE, chars |-> chars]
NonStrItem == [isStr |-> FALSE, chars |-> << >>]
RawList(items) == [isList |-> TRUE, items |-> items]
RawNonList == [isList |-> FALSE, items |-> << >>]

\* Variant of SanitizeLoop: a tag is appended whether seen before or not.
RECURSIVE SanitizeLoopNoSeen(_, _)
SanitizeLoopNoSeen(items, out) ==
    IF items = << >> THEN out
    ELSE LET it  == Head(items)
             tag == NormalizeTag(it.chars)
         IN  IF ~it.isStr \/ tag = << >>
             THEN SanitizeLoopNoSeen(Tail(items), out)
             ELSE SanitizeLoopNoSeen(Tail(items), Append(out, tag))

\* Lines 48-61: the loop over raw_tags; `out` is the list `result`,
\* and `seen` holds exactly its tags.
RECURSIVE SanitizeLoop(_, _)
SanitizeLoop(items, out) ==
    IF items = << >> THEN out
    ELSE LET it  == Head(items)
             tag == NormalizeTag(it.chars)
         IN  IF ~it.isStr THEN SanitizeLoop(Tail(items), out)
             ELSE IF tag = << >> \/ tag \in Range(out)
                  THEN SanitizeLoop(Tail(items), out)
                  ELSE SanitizeLoop(Tail(items), Append(out, tag))

sanitize_tags(raw_tags) ==
    IF ~raw_tags.isList THEN << >> ELSE SanitizeLoop(raw_tags.items, << >>)

-----------------------------------------------------------------------------
(* generate_tags.py: _sanitize_tags, run item by item on any raw tag list *)

\* The characters of the raw tag strings: an upper-case and a lower-case
\* letter, the two separators line 54 replaces, the underscore, and a character
\* line 55 removes.
TagAlphabet == { "A", "a", "-", " ", "_", "!" }

RawStrings == SeqsUpTo(TagAlphabet, MaxTagLen)

\* The items a raw tag list may hold.
RawItems == { StrItem(s) : s \in RawStrings } \cup { NonStrItem }

\* A list of tags, as the raw tag list it is when handed to _sanitize_tags.
AsRawTags(tags) == RawList([k \in 1..Len(tags) |-> StrItem(tags[k])])

\* Lines 45-49: a value that is no list is answered at once.
SanitizeStart ==
    /\ UNCHANGED nonSanVars
    /\ spc = "start"
    /\ IF ~raw_is_list
       THEN spc' = "done" /\ san_returned' = << >>
       ELSE spc' = "loop" /\ san_returned' = san_returned
    /\ UNCHANGED << raw_is_list, san_nread, san_is_str, san_tag, seen, san_result, san_again >>

\* Lines 50-60: one iteration of the loop, on the next item of raw_tags.
SanitizeItem ==
    /\ UNCHANGED nonSanVars
    /\ spc = "loop"
    /\ san_nread < MaxRawTags
    /\ \E it \in RawItems :
         /\ san_is_str' = it.isStr
         /\ san_tag' = IF it.isStr THEN NormalizeTag(it.chars) ELSE san_tag
         /\ san_result' = SanitizeLoop(<< it >>, san_result)
         /\ seen' = Range(san_result')
    /\ san_nread' = san_nread + 1
    /\ UNCHANGED << raw_is_list, spc, san_returned, san_again >>

\* Line 61
SanitizeReturn ==
    /\ UNCHANGED nonSanVars
    /\ spc = "loop"
    /\ spc' = "done"
    /\ san_returned' = san_result
    /\ UNCHANGED << raw_is_list, san_nread, san_is_str, san_tag, seen, san_result, san_again >>

\* _sanitize_tags is called on the list it returned.
Resanitize ==
    /\ UNCHANGED nonSanVars
    /\ spc = "done"
    /\ spc' = "again"
    /\ san_again' = sanitize_tags(AsRawTags(san_returned))
    /\ UNCHANGED << raw_is_list, san_nread, san_is_str, san_tag, seen, san_result, san_returned >>

\* _sanitize_tags is not running.
SanitizeIdle ==
    /\ raw_is_list = TRUE
    /\ spc = "idle"
    /\ san_nread = 0
    /\ san_is_str = FALSE
    /\ san_tag = << >>
    /\ seen = { }
    /\ san_result = << >>
    /\ san_returned = << >>
    /\ san_again = << >>

SanitizeInit ==
    /\ raw_is_list \in BOOLEAN
    /\ spc = "start"
    /\ san_nread = 0
    /\ san_is_str = FALSE
    /\ san_tag = << >>
    /\ seen = { }
    /\ san_result = << >>
    /\ san_returned = << >>
    /\ san_again = << >>

SanitizeNext == SanitizeStart \/ SanitizeItem \/ SanitizeReturn \/ Resanitize

-----------------------------------------------------------------------------
(* fake_data_access.py: the store *)

\* None, for an id and for a document.
NoId == 0
NoDocument == [id |-> NoId, content |-> "", content_hash |-> << >>,
               company_id |-> NoId, tags |-> << >>, project |-> ""]

Projects == { "p1", "p2" }

\* The id of the one company the store knows.
TestCorpId == 1

\* FakeCompanyRepository.get_company_id_by_name: _name_index.get(name)
get_company_id_by_name(name) == IF name = "TestCorp" THEN TestCorpId ELSE NoId

\* FakeDocumentRepository.get_document_by_project
get_document_by_project(documents, project) == documents[project]

\* FakeDocumentRepository.upsert_document: the document takes the id its
\* project has, or a new one; the result is << documents, document, next id >>.
upsert_document(documents, document, fresh) ==
    LET existing_id == documents[document.project].id
        stored == [document EXCEPT !.id = IF existing_id # NoId THEN existing_id
                                          ELSE fresh]
    IN  [documents |-> [documents EXCEPT ![document.project] = stored],
         document  |-> stored,
         next      |-> IF existing_id # NoId THEN fresh ELSE fresh + 1]

\* FakeChunkRepository.delete_chunks_by_document_id
delete_chunks_by_document_id(chunks, doc_id) ==
    { c \in chunks : c.document_id # doc_id }

\* FakeChunkRepository.insert_chunks, for n chunks of one document: each takes
\* a new id.
insert_chunks(chunks, doc_id, n, fresh) ==
    chunks \cup { [id |-> fresh + j, document_id |-> doc_id] : j \in 0..(n - 1) }

\* FakeChunkRepository.get_chunks_by_document_id
get_chunks_by_document_id(chunks, doc_id) ==
    { c \in chunks : c.document_id = doc_id }

-----------------------------------------------------------------------------
(* ingest_documents.py: inputs *)

\* The tags a generate_tags task may return, and their sorted order.
TagOrder == << "a", "b" >>
TagResults == { << "b", "a" >>, << "a" >> }

\* sorted(tags), for tags without repetition.
Sorted(tags) == SelectSeq(TagOrder, LAMBDA t : t \in Range(tags))

\* Variant of compute_content_hash: the tags go into the digest unsorted.
compute_content_hash_unsorted(content, tags) == << content, tags >>

\* Lines 29-34: the digest is taken of the content and the sorted tags; it is
\* represented by what goes into it.
compute_content_hash(content, tags) == << content, Sorted(tags) >>

\* The entries of prepared_docs: the project of the seeded store with the
\* seeded content and with another, a new project, and an unknown company.
DocShapes ==
    { [project |-> "p1", company_name |-> "TestCorp", content |-> "c1"],
      [project |-> "p1", company_name |-> "TestCorp", content |-> "c2"],
      [project |-> "p2", company_name |-> "TestCorp", content |-> "c2"],
      [project |-> "p2", company_name |-> "NoCorp",   content |-> "c1"] }

\* The concurrency argument: None, or an integer: negative, zero, or the size
\* of a pool of two workers.
NoneConcurrency == [isNone |-> TRUE, v |-> 0]
IntConcurrency(v) == [isNone |-> FALSE, v |-> v]
ConcurrencyChoices == { NoneConcurrency } \cup { IntConcurrency(v) : v \in { -1, 0, 2 } }

\* len(chunk_markdown(content)) for the two contents.
ChunkCount(content) == IF content = "c1" THEN 1 ELSE 2

\* Where the loop body may meet an exception of a collaborator:
\*   lookup    get_company_id_by_name or get_document_by_project raises
\*   delete    delete_chunks_by_document_id raises
\*   upsert    upsert_document raises (caught, line 160)
\*   noid      upsert_document returns a document without id (line 164)
\*   chunking  chunk_markdown or embed_texts raises
\*   insert    insert_chunks raises (caught, line 190)
Failures == { "none", "lookup", "delete", "upsert", "noid", "chunking", "insert" }

\* The store before ingestion: empty, or holding project p1 with content c1,
\* tags a, b and one chunk.
SeededDocument ==
    [id |-> 1, content |-> "c1",
     content_hash |-> compute_content_hash("c1", << "a", "b" >>),
     company_id |-> TestCorpId, tags |-> << "a", "b" >>, project |-> "p1"]

StoreEmpty ==
    /\ db_documents = [p \in Projects |-> NoDocument]
    /\ db_chunks = { }
    /\ next_id = 1

StoreSeeded ==
    /\ db_documents = [p \in Projects |-> IF p = "p1" THEN SeededDocument
                                           ELSE NoDocument]
    /\ db_chunks = { [id |-> 2, document_id |-> 1] }
    /\ next_id = 3

-----------------------------------------------------------------------------
(* ingest_documents.py: the code *)

\* Line 111
max_workers ==
    Max(1, IF concurrency.isNone \/ concurrency.v = 0 THEN 1 ELSE concurrency.v)

\* Variant of future_to_doc: every future maps to the document bound last.
future_to_doc_last(k) == Len(prepared_docs)

\* Lines 113-115 and 118: future_to_doc[future], as the position in
\* prepared_docs of the document whose content future k was submitted with.
future_to_doc(k) == k

\* Variant of TagsOfFuture: a document whose tag generation raised is given a
\* tag that says so, not the empty list.
TagsOfFutureUntagged(res) == IF res.raised THEN << "untagged" >> ELSE res.tags

\* Lines 120-124
TagsOfFuture(res) == IF res.raised THEN << >> ELSE res.tags

\* Variant of CompanyNotFound: the document goes on without a company id.
CompanyNotFoundIgnored(company_id) == FALSE

\* Line 133: `if not company_id`
CompanyNotFound(company_id) == company_id = NoId

\* Lines 118-193: the loop body for one document with its tags, on the store
\* << documents, chunks, fresh >>; `fail` is where a collaborator raises, n the
\* number of chunk models built (embed_texts may return no embedding). The result is the store after the body,
\* whether the body raised, and whether the upsert raised.
LoopBody(doc, tags, documents, chunks, fresh, fail, n) ==
    LET content_hash == compute_content_hash(doc.content, tags)
        company_id   == get_company_id_by_name(doc.company_name)
        existing_doc == get_document_by_project(documents, doc.project)
        unchanged    == [documents |-> documents, chunks |-> chunks,
                         next |-> fresh, raised |-> FALSE, upsert_raised |-> FALSE]
        chunks1      == IF existing_doc # NoDocument
                        THEN delete_chunks_by_document_id(chunks, existing_doc.id)
                        ELSE chunks
        document     == [id |-> NoId, content |-> doc.content,
                         content_hash |-> content_hash,
                         company_id |-> company_id, tags |-> tags,
                         project |-> doc.project]
        up           == upsert_document(documents, document, fresh)
        upserted     == [documents |-> up.documents, chunks |-> chunks1,
                         next |-> up.next, raised |-> FALSE,
                         upsert_raised |-> FALSE]
    IN  IF fail = "lookup" THEN [unchanged EXCEPT !.raised = TRUE]
        ELSE IF CompanyNotFound(company_id) THEN unchanged
        ELSE IF existing_doc # NoDocument
                /\ existing_doc.content_hash = content_hash THEN unchanged
        ELSE IF existing_doc # NoDocument /\ fail = "delete"
             THEN [unchanged EXCEPT !.raised = TRUE]
        ELSE IF fail = "upsert"
             THEN [unchanged EXCEPT !.chunks = chunks1, !.upsert_raised = TRUE]
        ELSE IF fail = "noid" THEN upserted
        ELSE IF fail = "chunking" THEN [upserted EXCEPT !.raised = TRUE]
        ELSE IF n = 0 \/ fail = "insert" THEN upserted
        ELSE [upserted EXCEPT
                 !.chunks = insert_chunks(chunks1, up.document.id, n, up.next),
                 !.next = up.next + n]

\* Lines 106-115: the early return, or the submission of one task per document.
IngestStart ==
    /\ ipc = "start"
    /\ ipc' = IF prepared_docs = << >> THEN "done" ELSE "loop"
    /\ UNCHANGED << storeVars, prepared_docs, concurrency, task_state,
                    task_result, handled, used_tags, upsert_raised, againVars >>
    /\ UNCHANGED nonIngestVars

\* The pool runs the tasks in the order of submission, max_workers at a time:
\* task k is running when fewer than max_workers unfinished tasks precede it.
IsRunning(k) ==
    /\ task_state[k] = "pending"
    /\ Cardinality({ j \in 1..(k - 1) : task_state[j] = "pending" }) < max_workers

\* generate_tags(doc["content"]) ends in its worker: it returns tags or raises.
TaskFinish(k) ==
    /\ ipc = "loop"
    /\ IsRunning(k)
    /\ task_state' = [task_state EXCEPT ![k] = "done"]
    /\ \E res \in { [raised |-> FALSE, tags |-> t] : t \in TagResults }
                  \cup { [raised |-> TRUE, tags |-> << >>] } :
         task_result' = [task_result EXCEPT ![k] = res]
    /\ UNCHANGED << storeVars, prepared_docs, concurrency, ipc, handled,
                    used_tags, upsert_raised, againVars >>
    /\ UNCHANGED nonIngestVars

\* Lines 117-193: as_completed yields a finished future not yielded before, and
\* the loop body runs for its document; `fail` and n are as in LoopBody.
HandleDocStep(k, fail, n) ==
    /\ ipc = "loop"
    /\ task_state[k] = "done"
    /\ task_state' = [task_state EXCEPT ![k] = "yielded"]
    /\ LET d     == future_to_doc(k)
           doc   == prepared_docs[d]
           tags  == TagsOfFuture(task_result[k])
           after == LoopBody(doc, tags, db_documents, db_chunks, next_id, fail, n)
       IN  /\ handled' = [handled EXCEPT ![d] = handled[d] + 1]
           /\ used_tags' = [used_tags EXCEPT ![d] = tags]
           /\ db_documents' = after.documents
           /\ db_chunks' = after.chunks
           /\ next_id' = after.next
           /\ ipc' = IF after.raised THEN "raised" ELSE "loop"
           /\ upsert_raised' = IF after.upsert_raised
                               THEN upsert_raised \cup { d }
                               ELSE upsert_raised
    /\ UNCHANGED << prepared_docs, concurrency, task_result >>
    /\ UNCHANGED nonIngestVars

HandleDoc(k) ==
    /\ task_state[k] = "done"
    /\ \E fail \in Failures, n \in { 0, ChunkCount(prepared_docs[future_to_doc(k)].content) } :
          HandleDocStep(k, fail, n)
    /\ UNCHANGED againVars

\* Line 194: every future has been yielded.
IngestReturn ==
    /\ ipc = "loop"
    /\ \A k \in 1..Len(prepared_docs) : task_state[k] = "yielded"
    /\ ipc' = "done"
    /\ UNCHANGED << storeVars, prepared_docs, concurrency, task_state,
                    task_result, handled, used_tags, upsert_raised, againVars >>
    /\ UNCHANGED nonIngestVars

\* ingest_documents is not running.
IngestIdle ==
    /\ prepared_docs = << >>
    /\ concurrency = NoneConcurrency
    /\ ipc = "idle"
    /\ task_state = << >>
    /\ task_result = << >>
    /\ handled = << >>
    /\ used_tags = << >>
    /\ upsert_raised = { }
    /\ run = 1
    /\ insert_failed = { }
    /\ run_clean = TRUE

IngestInit ==
    /\ StoreEmpty \/ StoreSeeded
    /\ prepared_docs \in SeqsUpTo(DocShapes, MaxDocs)
    /\ concurrency \in ConcurrencyChoices
    /\ ipc = "start"
    /\ task_state = [k \in 1..Len(prepared_docs) |-> "pending"]
    /\ task_result = [k \in 1..Len(prepared_docs) |->
                         [raised |-> FALSE, tags |-> << >>]]
    /\ handled = [k \in 1..Len(prepared_docs) |-> 0]
    /\ used_tags = [k \in 1..Len(prepared_docs) |-> << >>]
    /\ upsert_raised = { }
    /\ run = 1
    /\ insert_failed = { }
    /\ run_clean = TRUE

IngestNext ==
    \/ IngestStart
    \/ \E k \in 1..Len(prepared_docs) : TaskFinish(k)
    \/ \E k \in 1..Len(prepared_docs) : HandleDoc(k)
    \/ IngestReturn

-----------------------------------------------------------------------------
(* ingest_documents.py: ingest_documents called again on the same folder *)

\* The loop body for doc went on to the chunks (lines 170-193), and there
\* embed_texts or insert_chunks raised.
InsertionFailed(doc, tags, documents, fail) ==
    LET existing_doc == get_document_by_project(documents, doc.project)
    IN  /\ fail \in { "chunking", "insert" }
        /\ ~CompanyNotFound(get_company_id_by_name(doc.company_name))
        /\ ~(existing_doc # NoDocument
              /\ existing_doc.content_hash = compute_content_hash(doc.content, tags))

\* HandleDoc, with the history of the calls: which documents met a failure of
\* embedding or chunk insert, and whether this call met any failure or a
\* document without chunk models.
HandleDocOfRun(k) ==
    /\ task_state[k] = "done"
    /\ \E fail \in Failures, n \in { 0, ChunkCount(prepared_docs[future_to_doc(k)].content) } :
        /\ HandleDocStep(k, fail, n)
        /\ insert_failed' =
              IF InsertionFailed(prepared_docs[future_to_doc(k)],
                                 TagsOfFuture(task_result[k]), db_documents, fail)
              THEN insert_failed \cup { future_to_doc(k) }
              ELSE insert_failed
        /\ run_clean' = (run_clean /\ fail = "none" /\ n # 0)
        /\ run' = run

\* Lines 37-115: ingest_documents has ended, by its return or by an exception,
\* and is called again on the folder, whose files are unchanged: the first
\* pass builds the same prepared_docs, and a task is submitted per document.
IngestAgain ==
    /\ ipc \in { "done", "raised" }
    /\ run < MaxRuns
    /\ run' = run + 1
    /\ run_clean' = TRUE
    /\ ipc' = "start"
    /\ task_state' = [k \in 1..Len(prepared_docs) |-> "pending"]
    /\ task_result' = [k \in 1..Len(prepared_docs) |->
                          [raised |-> FALSE, tags |-> << >>]]
    /\ handled' = [k \in 1..Len(prepared_docs) |-> 0]
    /\ used_tags' = [k \in 1..Len(prepared_docs) |-> << >>]
    /\ upsert_raised' = { }
    /\ UNCHANGED << storeVars, prepared_docs, concurrency, insert_failed >>
    /\ UNCHANGED nonIngestVars

ReingestNext ==
    \/ IngestStart
    \/ \E k \in 1..Len(prepared_docs) : TaskFinish(k)
    \/ \E k \in 1..Len(prepared_docs) : HandleDocOfRun(k)
    \/ IngestReturn
    \/ IngestAgain

-----------------------------------------------------------------------------
(* chunk.py: ingest_chunks *)

DocumentIds == { 1, 2 }

\* The chunks the store may hold before the first call.
SeedChunks == { [id |-> 1, document_id |-> 1], [id |-> 2, document_id |-> 1],
                [id |-> 3, document_id |-> 2] }

ChunkIds(chunks) == { c.id : c \in chunks }

\* ingest_chunks is called for a document id.
IngestChunksCall ==
    /\ UNCHANGED nonIcVars
    /\ icpc \in { "ready", "returned", "raised" }
    /\ ic_calls < MaxCalls
    /\ ic_calls' = ic_calls + 1
    /\ document_id' \in DocumentIds
    /\ ic_before' = ChunkIds(get_chunks_by_document_id(db_chunks, document_id'))
    /\ ic_delete_raised' = FALSE
    /\ chunks_text' = 0
    /\ ic_inserted' = { }
    /\ icpc' = "delete"
    /\ UNCHANGED << storeVars, ic_returned >>

\* Lines 133-137: the delete, whose exception is caught and reported.
IngestChunksDelete ==
    /\ UNCHANGED nonIcVars
    /\ icpc = "delete"
    /\ \E raises \in BOOLEAN :
         /\ ic_delete_raised' = raises
         /\ db_chunks' = IF raises THEN db_chunks
                         ELSE delete_chunks_by_document_id(db_chunks, document_id)
    /\ icpc' = "chunk"
    /\ UNCHANGED << db_documents, next_id, document_id, ic_calls, ic_before,
                    chunks_text, ic_inserted, ic_returned >>

\* Lines 139-142: _chunk_markdown raises (no encoding), or returns the chunks;
\* without chunks the call returns 0.
IngestChunksChunk ==
    /\ UNCHANGED nonIcVars
    /\ icpc = "chunk"
    /\ \/ icpc' = "raised" /\ UNCHANGED << chunks_text, ic_returned >>
       \/ \E n \in 0..MaxNewChunks :
            /\ chunks_text' = n
            /\ IF n = 0
               THEN icpc' = "returned" /\ ic_returned' = 0
               ELSE icpc' = "insert" /\ ic_returned' = ic_returned
    /\ UNCHANGED << storeVars, document_id, ic_calls, ic_before,
                    ic_delete_raised, ic_inserted >>

\* Lines 144-165: embed_texts raises, or the chunk models, one per pair of chunk
\* text and embedding, are inserted; an exception of the insert is caught.
IngestChunksInsert ==
    /\ UNCHANGED nonIcVars
    /\ icpc = "insert"
    /\ \/ icpc' = "raised" /\ UNCHANGED << storeVars, ic_inserted, ic_returned >>
       \/ \E m \in 0..chunks_text, raises \in BOOLEAN :
            /\ icpc' = "returned"
            /\ IF raises
               THEN /\ ic_returned' = 0
                    /\ UNCHANGED << storeVars, ic_inserted >>
               ELSE /\ db_chunks' = insert_chunks(db_chunks, document_id, m, next_id)
                    /\ next_id' = next_id + m
                    /\ ic_inserted' = { next_id + j : j \in 0..(m - 1) }
                    /\ ic_returned' = m
                    /\ UNCHANGED db_documents
    /\ UNCHANGED << document_id, ic_calls, ic_before, ic_delete_raised,
                    chunks_text >>

\* ingest_chunks is not running.
IngestChunksIdle ==
    /\ icpc = "idle"
    /\ document_id = NoId
    /\ ic_calls = 0
    /\ ic_before = { }
    /\ ic_delete_raised = FALSE
    /\ chunks_text = 0
    /\ ic_inserted = { }
    /\ ic_returned = 0

IngestChunksInit ==
    /\ db_documents = [p \in Projects |-> NoDocument]
    /\ db_chunks \in SUBSET SeedChunks
    /\ next_id = 4
    /\ icpc = "ready"
    /\ document_id = NoId
    /\ ic_calls = 0
    /\ ic_before = { }
    /\ ic_delete_raised = FALSE
    /\ chunks_text = 0
    /\ ic_inserted = { }
    /\ ic_returned = 0

IngestChunksNext ==
    IngestChunksCall \/ IngestChunksDelete \/ IngestChunksChunk \/ IngestChunksInsert

-----------------------------------------------------------------------------
(* prune_documents.py *)

\* Line 10: the all-zero uuid, the smallest id there is.
MOCK_UUID == 0

\* The ids a row may have: MOCK_UUID itself, or a larger one.
RowIds == MOCK_UUID..MaxRowId

\* What the user may type at the prompt of line 16.
Answers == { << "y" >>, << " ", "Y", " " >>, << "y", "e", "s" >>, << "n" >>, << >> }

\* Lines 13-19
confirm ==
    IF skip_confirm THEN TRUE
    ELSE Lower(Strip(resp, PyWhitespace)) = << "y" >>

\* Variant of DeleteOrder: the documents are deleted first.
DeleteOrderDocumentsFirst == << "documents", "chunks" >>

\* Lines 49-50: the tables main hands to delete_all_rows, in this order.
DeleteOrder == << "chunks", "documents" >>

\* Line 24: delete().gt("id", MOCK_UUID) on the rows of one table.
RowsAfterDelete(rows) == { id \in rows : ~(id > MOCK_UUID) }

\* Lines 33-39: is_table_empty; `failed` says that the query raised.
is_table_empty(rows, failed) == IF failed THEN FALSE ELSE rows = { }

\* Lines 43-46
PruneConfirm ==
    /\ UNCHANGED nonPruneVars
    /\ ppc = "start"
    /\ IF confirm
       THEN ppc' = "delete" /\ exit_code' = exit_code
       ELSE ppc' = "exit" /\ exit_code' = << 0 >>
    /\ UNCHANGED << skip_confirm, resp, tables, attempts, chunks_empty,
                    documents_empty >>

\* Lines 49-50 with 22-28: the next call of delete_all_rows; the request
\* succeeds, or it raises and the script exits with 1.
PruneDelete ==
    /\ UNCHANGED nonPruneVars
    /\ ppc = "delete"
    /\ LET table_name == DeleteOrder[Len(attempts) + 1]
       IN  \E ok \in BOOLEAN :
             /\ attempts' = Append(attempts, [table |-> table_name, ok |-> ok])
             /\ IF ok
                THEN /\ tables' = [tables EXCEPT
                                      ![table_name] = RowsAfterDelete(@)]
                     /\ ppc' = IF Len(attempts) + 1 < Len(DeleteOrder)
                               THEN "delete" ELSE "check"
                     /\ exit_code' = exit_code
                ELSE /\ tables' = tables
                     /\ ppc' = "exit"
                     /\ exit_code' = << 1 >>
    /\ UNCHANGED << skip_confirm, resp, chunks_empty, documents_empty >>

\* Lines 53-60
PruneCheck ==
    /\ UNCHANGED nonPruneVars
    /\ ppc = "check"
    /\ \E chunks_failed, documents_failed \in BOOLEAN :
          /\ chunks_empty' = is_table_empty(tables["chunks"], chunks_failed)
          /\ documents_empty' = is_table_empty(tables["documents"], documents_failed)
    /\ ppc' = "returned"
    /\ UNCHANGED << skip_confirm, resp, tables, attempts, exit_code >>

\* prune_documents is not running.
PruneIdle ==
    /\ skip_confirm = FALSE
    /\ resp = << >>
    /\ ppc = "idle"
    /\ tables = [t \in { "chunks", "documents" } |-> { }]
    /\ attempts = << >>
    /\ exit_code = << >>
    /\ chunks_empty = FALSE
    /\ documents_empty = FALSE

PruneInit ==
    /\ skip_confirm \in BOOLEAN
    /\ resp \in Answers
    /\ ppc = "start"
    /\ tables \in [{ "chunks", "documents" } -> SUBSET RowIds]
    /\ attempts = << >>
    /\ exit_code = << >>
    /\ chunks_empty = FALSE
    /\ documents_empty = FALSE

PruneNext == PruneConfirm \/ PruneDelete \/ PruneCheck

-----------------------------------------------------------------------------
(* generate_tags.py: batch_generate_tags, inputs *)

\* Token counts an item of `contents` may have: small, medium, within
\* PER_ITEM_OVERHEAD_TOKENS of the smaller budget, and above both budgets.
TokenChoices == { 10, 600, 1010, 1300 }

\* Configured values of INPUT_MAX_TOKENS: one under the floor of 1024 + overhead,
\* one over it.
InputMaxChoices == { 1000, 2000 }

\* The `index` field of a response entry as json.loads decodes it: an integer, a
\* boolean (v is its integer value: True is 1), or any other value (missing,
\* null, a string, a float).
IntIndex(v) == [kind |-> "int", v |-> v]
BoolIndex(v) == [kind |-> "bool", v |-> v]
OtherIndex == [kind |-> "other", v |-> 0]

IndexValues(n) == { IntIndex(v) : v \in (-1)..n } \cup { BoolIndex(1), OtherIndex }

\* isinstance(idx_val, int): bool is a subclass of int.
IsInstanceInt(ix) == ix.kind \in { "int", "bool" }

\* Raw tag values a response may carry.
RawTagsA == RawList(<< StrItem(<< "P", "y", "!", " " >>) >>)
RawTagsB == RawList(<< StrItem(<< "a", "-", "b" >>), NonStrItem,
                       StrItem(<< " ", "A", " ", "B" >>) >>)
RawTagsEmpty == RawList(<< >>)

\* An entry of raw_results: a dict {index, tags} or any other JSON value (a tag
\* array, or a value that is no list).
ObjEntry(ix, tags) == [isObj |-> TRUE, index |-> ix, tags |-> tags]
PlainEntry(tags) == [isObj |-> FALSE, index |-> OtherIndex, tags |-> tags]
NoEntry == PlainEntry(RawNonList)

ObjEntries(n) ==
    { ObjEntry(ix, t) : ix \in IndexValues(n), t \in { RawTagsA, RawTagsB } }
    \cup { ObjEntry(IntIndex(v), RawTagsEmpty) : v \in 0..(n - 1) }
PlainEntries == { PlainEntry(t) : t \in { RawTagsA, RawTagsB, RawNonList } }

\* What one generator call produces (lines 203-219):
\*   raise    create_completion raises
\*   nojson   content is not JSON and holds no {...} substring
\*   badjson  content is not JSON and its {...} substring does not parse
\*   empty    content is None or empty, read as "{}"
\*   nondict  content is JSON but no object: data.get raises
\*   notlist  data["results"] is not a list
\*   list     data["results"] is a list
Outcomes == { "raise", "nojson", "badjson", "empty", "nondict", "notlist", "list" }

-----------------------------------------------------------------------------
(* generate_tags.py: batch_generate_tags, the code *)

FIXED_OVERHEAD_TOKENS == 800
PER_ITEM_OVERHEAD_TOKENS == 24

MAX_INPUT_BUDGET == Max(1024, INPUT_MAX_TOKENS - FIXED_OVERHEAD_TOKENS)

\* len(contents)
NumContents == Len(content_token_counts)

\* list(range(len(contents))) as Python indices.
AllIndices == [k \in 1..NumContents |-> k - 1]

\* Line 158 and line 161: the test that sorts an item into the queue.
FitsBudget(tks) == tks <= MAX_INPUT_BUDGET

ProcessQueue ==
    SelectSeq(AllIndices, LAMBDA idx : FitsBudget(content_token_counts[idx + 1]))
SkippedTooLarge ==
    SelectSeq(AllIndices, LAMBDA idx : ~FitsBudget(content_token_counts[idx + 1]))

\* Line 153: results = [[] for _ in contents]
InitialResults == [k \in 1..NumContents |-> << >>]

\* Variant of FailureResult: the handler returns an empty list.
FailureResultEmpty == << >>

\* Line 268: the value returned when the body raises.
FailureResult == [k \in 1..NumContents |-> << >>]

\* Line 253
ItemTokens(idx) == content_token_counts[idx + 1] + PER_ITEM_OVERHEAD_TOKENS

\* Variant of ShouldFlush: the batch is flushed when the item does not fit, be
\* the batch empty or not.
ShouldFlushEmptyBatch(b, b_tokens, item_tokens) ==
    b_tokens + item_tokens > MAX_INPUT_BUDGET

\* Line 254
ShouldFlush(b, b_tokens, item_tokens) ==
    b # << >> /\ b_tokens + item_tokens > MAX_INPUT_BUDGET

\* Lines 228-235: one entry of a response that contains objects.
ApplyObject(res, it) ==
    IF it.isObj /\ IsInstanceInt(it.index)
                /\ 0 <= it.index.v /\ it.index.v < Len(res)
    THEN [res EXCEPT ![it.index.v + 1] = sanitize_tags(it.tags)]
    ELSE res

\* Variant of ApplyPositional: entry j is written at position j of the buffer,
\* not at the j-th index of the batch.
ApplyPositionalUnmapped(res, b_indices, j, it) ==
    IF j < Len(b_indices)
    THEN [res EXCEPT ![j + 1] = sanitize_tags(it.tags)]
    ELSE res

\* Lines 237-242: entry j (0-based) of a response without objects.
ApplyPositional(res, b_indices, j, it) ==
    IF j < Len(b_indices)
    THEN [res EXCEPT ![b_indices[j + 1] + 1] = sanitize_tags(it.tags)]
    ELSE res

\* Variant of AfterCallWithoutEntries: a response that is not usable resets the
\* whole buffer, as the outer handler of line 268 does.
AfterCallClearsBuffer(res, o) ==
    IF o \in { "nojson", "badjson", "notlist" }
    THEN [k \in 1..Len(res) |-> << >>]
    ELSE res

\* Lines 204-219 and 243-250: the results after a call that yields no entries.
\* The except clause and the warning leave the buffer alone; an unparsable or
\* empty content is read as {"results": []}.
AfterCallWithoutEntries(res, o) == res

\* Variant of FlushReturn: a batch whose call raised is sent again.
FlushReturnRetry(res) ==
    IF outcome = "raise" /\ Len(calls) < 3
    THEN /\ pc' = "call"
         /\ UNCHANGED << batch, batch_tokens, qpos, returned >>
    ELSE IF qpos <= Len(process_queue)
    THEN /\ batch' = << process_queue[qpos] >>
         /\ batch_tokens' = ItemTokens(process_queue[qpos])
         /\ qpos' = qpos + 1
         /\ pc' = "pack"
         /\ returned' = returned
    ELSE /\ pc' = "done"
         /\ returned' = res
         /\ UNCHANGED << batch, batch_tokens, qpos >>

\* Variant of FlushReturn: the batch is reset, and the pending index is not
\* appended to it.
FlushReturnDropsPending(res) ==
    IF qpos <= Len(process_queue)
    THEN /\ batch' = << >>
         /\ batch_tokens' = 0
         /\ qpos' = qpos + 1
         /\ pc' = "pack"
         /\ returned' = returned
    ELSE /\ pc' = "done"
         /\ returned' = res
         /\ UNCHANGED << batch, batch_tokens, qpos >>

\* flush_batch returns: the loop resets the batch and appends the pending index
\* (lines 256-259), or, after the last flush, the function returns (line 264).
FlushReturn(res) ==
    IF qpos <= Len(process_queue)
    THEN /\ batch' = << process_queue[qpos] >>
         /\ batch_tokens' = ItemTokens(process_queue[qpos])
         /\ qpos' = qpos + 1
         /\ pc' = "pack"
         /\ returned' = returned
    ELSE /\ pc' = "done"
         /\ returned' = res
         /\ UNCHANGED << batch, batch_tokens, qpos >>

\* Lines 129-175: from the call to the start of the packing loop.
Start ==
    /\ UNCHANGED nonTagVars
    /\ pc = "start"
    /\ IF content_token_counts = << >>
       THEN /\ pc' = "done"
            /\ returned' = << >>
            /\ UNCHANGED << results, process_queue >>
       ELSE IF ~encoding_ok
       THEN /\ pc' = "done"
            /\ returned' = FailureResult
            /\ UNCHANGED << results, process_queue >>
       ELSE /\ results' = InitialResults
            /\ process_queue' = ProcessQueue
            /\ IF ProcessQueue = << >>
               THEN pc' = "done" /\ returned' = InitialResults
               ELSE pc' = "pack" /\ returned' = returned
    /\ UNCHANGED << INPUT_MAX_TOKENS, content_token_counts, encoding_ok, qpos,
                    batch, batch_tokens, batch_indices, outcome,
                    contains_objects, nread, seen_object, item, calls,
                    raised_items >>

\* Lines 252-259: one iteration of the packing loop, up to the flush it may start.
Pack ==
    /\ UNCHANGED nonTagVars
    /\ pc = "pack"
    /\ qpos <= Len(process_queue)
    /\ LET idx == process_queue[qpos]
           item_tokens == ItemTokens(idx)
       IN  IF ShouldFlush(batch, batch_tokens, item_tokens)
           THEN /\ pc' = "call"
                /\ batch_indices' = batch
                /\ UNCHANGED << batch, batch_tokens, qpos >>
           ELSE /\ batch' = Append(batch, idx)
                /\ batch_tokens' = batch_tokens + item_tokens
                /\ qpos' = qpos + 1
                /\ UNCHANGED << pc, batch_indices >>
    /\ UNCHANGED << INPUT_MAX_TOKENS, content_token_counts, encoding_ok, results,
                    returned, process_queue, outcome, contains_objects, nread,
                    seen_object, item, calls, raised_items >>

\* Lines 261-264 with 178-179: the flush after the loop.
FinalFlush ==
    /\ UNCHANGED nonTagVars
    /\ pc = "pack"
    /\ qpos > Len(process_queue)
    /\ IF batch = << >>
       THEN pc' = "done" /\ returned' = results /\ UNCHANGED batch_indices
       ELSE pc' = "call" /\ batch_indices' = batch /\ returned' = returned
    /\ UNCHANGED << INPUT_MAX_TOKENS, content_token_counts, encoding_ok, results,
                    process_queue, qpos, batch, batch_tokens, outcome,
                    contains_objects, nread, seen_object, item, calls,
                    raised_items >>

\* Lines 193-226 and 243-250: the generator call of flush_batch and the decoding
\* of its response, up to the loop over raw_results.
Call ==
    /\ UNCHANGED nonTagVars
    /\ pc = "call"
    /\ calls' = Append(calls, batch_indices)
    /\ \E o \in Outcomes :
         /\ outcome' = o
         /\ IF o = "list"
            THEN /\ contains_objects' \in BOOLEAN
                 /\ UNCHANGED << results, raised_items >>
            ELSE /\ contains_objects' = FALSE
                 /\ raised_items' = IF o = "raise"
                                    THEN raised_items \cup Range(batch_indices)
                                    ELSE raised_items
                 /\ results' = AfterCallWithoutEntries(results, o)
    /\ pc' = "apply"
    /\ UNCHANGED << INPUT_MAX_TOKENS, content_token_counts, encoding_ok, returned,
                    process_queue, qpos, batch, batch_tokens, batch_indices,
                    nread, seen_object, item >>

\* The entries a response may deliver next: a list that contains objects and
\* has shown none yet must show one before it ends.
NextEntries ==
    IF ~contains_objects THEN PlainEntries
    ELSE IF ~seen_object /\ nread = MaxEntries - 1 THEN ObjEntries(NumContents)
    ELSE ObjEntries(NumContents) \cup PlainEntries

\* Lines 228-242: one iteration of the loop over raw_results. The entries are
\* drawn as the loop reads them; the list is fixed by the response, and the
\* loop reads it once, in order.
ApplyItem ==
    /\ UNCHANGED nonTagVars
    /\ pc = "apply"
    /\ outcome = "list"
    /\ nread < MaxEntries
    /\ \E e \in NextEntries :
         /\ item' = e
         /\ results' = IF contains_objects
                       THEN ApplyObject(results, e)
                       ELSE ApplyPositional(results, batch_indices, nread, e)
         /\ seen_object' = (seen_object \/ e.isObj)
    /\ nread' = nread + 1
    /\ UNCHANGED << INPUT_MAX_TOKENS, content_token_counts, encoding_ok, pc,
                    returned, process_queue, qpos, batch, batch_tokens,
                    batch_indices, outcome, contains_objects, calls,
                    raised_items >>

\* flush_batch returns (its locals go out of scope): after the loop over
\* raw_results, or at once when the call yielded no entries.
FlushEnd ==
    /\ UNCHANGED nonTagVars
    /\ pc = "apply"
    /\ (outcome = "list" /\ contains_objects) => seen_object
    /\ FlushReturn(results)
    /\ outcome' = "none"
    /\ contains_objects' = FALSE
    /\ nread' = 0
    /\ seen_object' = FALSE
    /\ item' = NoEntry
    /\ UNCHANGED << INPUT_MAX_TOKENS, content_token_counts, encoding_ok, results,
                    process_queue, batch_indices, calls, raised_items >>

TagsInit ==
    /\ INPUT_MAX_TOKENS \in InputMaxChoices
    /\ content_token_counts \in SeqsUpTo(TokenChoices, MaxItems)
    /\ encoding_ok \in BOOLEAN
    /\ pc = "start"
    /\ results = << >>
    /\ returned = << >>
    /\ process_queue = << >>
    /\ qpos = 1
    /\ batch = << >>
    /\ batch_tokens = 0
    /\ batch_indices = << >>
    /\ outcome = "none"
    /\ contains_objects = FALSE
    /\ nread = 0
    /\ seen_object = FALSE
    /\ item = NoEntry
    /\ calls = << >>
    /\ raised_items = { }

\* The chunker is not running.
ChunkIdle ==
    /\ docs = << >>
    /\ max_tokens = 1
    /\ cpc = "idle"
    /\ doc_pos = 1
    /\ result = << >>

TagsNext == Start \/ Pack \/ FinalFlush \/ Call \/ ApplyItem \/ FlushEnd

InitTags ==
    /\ TagsInit /\ ChunkIdle /\ SanitizeIdle
    /\ StoreEmpty /\ IngestIdle /\ IngestChunksIdle /\ PruneIdle

SpecTags == InitTags /\ [][TagsNext]_vars

-----------------------------------------------------------------------------
(* chunk.py: inputs of the chunker *)

\* A sentence, as sent_tokenize returns it: `id` tells the sentences of a
\* document apart (section, position), `tok` is len(enc.encode(sentence)).
\* A section (a Document of the header splitter): `metadata` gives, for each of
\* h1, h2, h3, the token count of the heading text, 0 when the key is absent;
\* `sentences` is the page content, as the sequence of its sentences.
SentenceTokenChoices == { 3, 6 }
MaxTokensChoices == { 5, 8 }
MetadataChoices == { [h1 |-> 0, h2 |-> 0, h3 |-> 0], [h1 |-> 2, h2 |-> 0, h3 |-> 1] }

\* The sentence token counts of one section: at least one sentence.
SentenceShapes == SeqsUpTo(SentenceTokenChoices, MaxSentences) \ { << >> }

SectionShapes == [metadata : MetadataChoices, toks : SentenceShapes]

\* The sections of a document, from their shapes.
MakeDocs(shapes) ==
    [s \in 1..Len(shapes) |->
        [metadata  |-> shapes[s].metadata,
         sentences |-> [j \in 1..Len(shapes[s].toks) |->
                           [id |-> << s, j >>, tok |-> shapes[s].toks[j]]]]]

-----------------------------------------------------------------------------
(* chunk.py: the tokenizer, len(enc.encode(text)), on the texts the chunker builds *)

\* Tokens of the literal " - part {N}" of line 19.
PartSuffixTokens == 3
\* Tokens of one "\n" of lines 17, 95 and 105.
NewlineTokens == 1

RECURSIVE SumTokens(_)
SumTokens(sentences) ==
    IF sentences = << >> THEN 0
    ELSE Head(sentences).tok + SumTokens(Tail(sentences))

RECURSIVE SumLineTokens(_)
SumLineTokens(lines) ==
    IF lines = << >> THEN 0
    ELSE Head(lines).tok + SumLineTokens(Tail(lines))

\* A header is [lines, part]: the heading texts joined by "\n", and the part
\* number, << >> for None and << n >> for n.
HeaderTokens(header) ==
    SumLineTokens(header.lines)
    + (IF Len(header.lines) > 1 THEN (Len(header.lines) - 1) * NewlineTokens ELSE 0)
    + (IF header.part # << >> THEN PartSuffixTokens ELSE 0)

\* A chunk text is f"{header}\n{body}": [header, body], body a sequence of
\* sentences.
TokenCount(text) ==
    HeaderTokens(text.header) + NewlineTokens + SumTokens(text.body)

-----------------------------------------------------------------------------
(* chunk.py: the code *)

NoPart == << >>

\* Lines 12-20
build_chunk_context_header(metadata, part) ==
    [lines |-> [k \in 1..Len(SelectSeq(<< "h1", "h2", "h3" >>,
                                       LAMBDA key : metadata[key] > 0)) |->
                  LET key == SelectSeq(<< "h1", "h2", "h3" >>,
                                       LAMBDA x : metadata[x] > 0)[k]
                  IN  [key |-> key, tok |-> metadata[key]]],
     part  |-> part]

\* Variant of ExceedsMax: the tokens of the current chunk are not counted.
ExceedsMaxIgnoringCurrent(current_tokens, tokens, max) == tokens > max

\* Line 51: the test that closes the current chunk.
ExceedsMax(current_tokens, tokens, max) == current_tokens + tokens > max

\* Variant of ChunkLoop: the sentences left in current_chunk after the loop are
\* not appended.
RECURSIVE ChunkLoopNoFinalAppend(_, _, _, _, _)
ChunkLoopNoFinalAppend(sentences, chunks, current_chunk, current_tokens, max) ==
    IF sentences = << >>
    THEN chunks
    ELSE LET sentence == Head(sentences)
             tokens   == sentence.tok
         IN  IF current_tokens + tokens > max
             THEN ChunkLoopNoFinalAppend(Tail(sentences),
                                         Append(chunks, current_chunk),
                                         << sentence >>, tokens, max)
             ELSE ChunkLoopNoFinalAppend(Tail(sentences), chunks,
                                         Append(current_chunk, sentence),
                                         current_tokens + tokens, max)

\* Lines 48-60: the loop over the sentences and the final append.
RECURSIVE ChunkLoop(_, _, _, _, _)
ChunkLoop(sentences, chunks, current_chunk, current_tokens, max) ==
    IF sentences = << >>
    THEN IF current_chunk # << >> THEN Append(chunks, current_chunk) ELSE chunks
    ELSE LET sentence == Head(sentences)
             tokens   == sentence.tok
         IN  IF ExceedsMax(current_tokens, tokens, max)
             THEN ChunkLoop(Tail(sentences), Append(chunks, current_chunk),
                            << sentence >>, tokens, max)
             ELSE ChunkLoop(Tail(sentences), chunks,
                            Append(current_chunk, sentence),
                            current_tokens + tokens, max)

\* Lines 23-61. A chunk, " ".join(current_chunk), is the sequence of its
\* sentences; the empty string is the empty sequence.
chunk_text_by_sentences(sentences, max) ==
    ChunkLoop(sentences, << >>, << >>, 0, max)

\* Variant of SectionTooLarge: a section of exactly max tokens is split too.
SectionTooLargeAtLimit(content, max) == TokenCount(content) >= max

\* Line 99
SectionTooLarge(content, max) == TokenCount(content) > max

\* Variant of PartChunks: the part number is the 0-based index.
PartChunksZeroBased(metadata, chunks) ==
    [index \in 1..Len(chunks) |->
        [header |-> build_chunk_context_header(metadata, << index - 1 >>),
         body   |-> chunks[index]]]

\* Lines 102-105: the sub-chunks of a split section, each under its header.
PartChunks(metadata, chunks) ==
    [index \in 1..Len(chunks) |->
        [header |-> build_chunk_context_header(metadata, << index >>),
         body   |-> chunks[index]]]

\* Lines 93-108: the chunks one section adds to the result.
SectionChunks(doc, max) ==
    LET header  == build_chunk_context_header(doc.metadata, NoPart)
        content == [header |-> header, body |-> doc.sentences]
    IN  IF SectionTooLarge(content, max)
        THEN PartChunks(doc.metadata, chunk_text_by_sentences(doc.sentences, max))
        ELSE << content >>

\* Lines 82-89: the splitter and the encoding are obtained; the encoding may be
\* unavailable, and then the call raises.
ChunkStart ==
    /\ UNCHANGED nonChunkVars
    /\ cpc = "start"
    /\ cpc' = IF encoding_ok THEN "loop" ELSE "raised"
    /\ UNCHANGED << docs, max_tokens, doc_pos, result >>

\* Lines 91-108: one iteration of the loop over the sections.
ChunkSection ==
    /\ UNCHANGED nonChunkVars
    /\ cpc = "loop"
    /\ doc_pos <= Len(docs)
    /\ result' = result \o SectionChunks(docs[doc_pos], max_tokens)
    /\ doc_pos' = doc_pos + 1
    /\ UNCHANGED << docs, max_tokens, cpc >>

\* Line 109
ChunkReturn ==
    /\ UNCHANGED nonChunkVars
    /\ cpc = "loop"
    /\ doc_pos > Len(docs)
    /\ cpc' = "done"
    /\ UNCHANGED << docs, max_tokens, doc_pos, result >>

\* batch_generate_tags is not running.
TagsIdle ==
    /\ INPUT_MAX_TOKENS = 0
    /\ content_token_counts = << >>
    /\ pc = "idle"
    /\ results = << >>
    /\ returned = << >>
    /\ process_queue = << >>
    /\ qpos = 1
    /\ batch = << >>
    /\ batch_tokens = 0
    /\ batch_indices = << >>
    /\ outcome = "none"
    /\ contains_objects = FALSE
    /\ nread = 0
    /\ seen_object = FALSE
    /\ item = NoEntry
    /\ calls = << >>
    /\ raised_items = { }

InitChunk ==
    /\ TagsIdle
    /\ SanitizeIdle
    /\ StoreEmpty /\ IngestIdle /\ IngestChunksIdle /\ PruneIdle
    /\ encoding_ok \in BOOLEAN
    /\ \E shapes \in SeqsUpTo(SectionShapes, MaxSections) : docs = MakeDocs(shapes)
    /\ max_tokens \in MaxTokensChoices
    /\ cpc = "start"
    /\ doc_pos = 1
    /\ result = << >>

ChunkNext == ChunkStart \/ ChunkSection \/ ChunkReturn

SpecChunk == InitChunk /\ [][ChunkNext]_vars

InitSanitize ==
    /\ SanitizeInit /\ TagsIdle /\ encoding_ok = TRUE /\ ChunkIdle
    /\ StoreEmpty /\ IngestIdle /\ IngestChunksIdle /\ PruneIdle

SpecSanitize == InitSanitize /\ [][SanitizeNext]_vars

InitIngest ==
    /\ IngestInit /\ IngestChunksIdle /\ PruneIdle
    /\ TagsIdle /\ encoding_ok = TRUE /\ ChunkIdle /\ SanitizeIdle

SpecIngest == InitIngest /\ [][IngestNext]_vars

\* The calls on one folder, each with the default concurrency.
InitReingest == InitIngest /\ concurrency = NoneConcurrency

SpecReingest == InitReingest /\ [][ReingestNext]_vars

InitIngestChunks ==
    /\ IngestChunksInit /\ IngestIdle /\ PruneIdle
    /\ TagsIdle /\ encoding_ok = TRUE /\ ChunkIdle /\ SanitizeIdle

SpecIngestChunks == InitIngestChunks /\ [][IngestChunksNext]_vars

InitPrune ==
    /\ PruneInit /\ StoreEmpty /\ IngestIdle /\ IngestChunksIdle
    /\ TagsIdle /\ encoding_ok = TRUE /\ ChunkIdle /\ SanitizeIdle

SpecPrune == InitPrune /\ [][PruneNext]_vars

-----------------------------------------------------------------------------
(* Properties of batch_generate_tags, checked under SpecTags *)

\* Python index i of a list held as a sequence.
At(seq, i) == seq[i + 1]

TagsA == sanitize_tags(RawTagsA)
TagsB == sanitize_tags(RawTagsB)

\* C1: whatever the generator does for each batch (a usable response, a
\* malformed one, an exception), and also when the encoding is unavailable,
\* batch_generate_tags returns a list as long as `contents`.
C1_ReturnedLengthMatches ==
    pc = "done" => Len(returned) = Len(content_token_counts)

\* C1 witness: a run over two items has ended after a batch's call raised.
C1_Witness ==
    /\ pc = "done"
    /\ Len(content_token_counts) = 2
    /\ raised_items # { }
    /\ Len(calls) = 2

\* The generator attributed entry e, read as entry j (0-based) of the response
\* to batch b, to input index i: by its `index` field in a response that
\* contains objects (the field as the integer Python reads, True being 1), by
\* its position in the batch otherwise.
EntryAttributedTo(e, j, b, objects, i) ==
    \/ objects /\ e.isObj /\ IsInstanceInt(e.index) /\ e.index.v = i
    \/ ~objects /\ j < Len(b) /\ b[j + 1] = i

C3_SkippedStayEmpty ==
    (pc = "done" /\ encoding_ok) =>
        \A k \in 1..Len(SkippedTooLarge) :
            /\ At(returned, SkippedTooLarge[k]) = << >>
            /\ \A c \in 1..Len(calls) : SkippedTooLarge[k] \notin Range(calls[c])

\* C4 (as claimed): the items of a batch whose call raised have empty tag lists
\* in the returned result, and every batch is still sent.
C4_RaisedBatchEmpty ==
    (pc = "done" /\ encoding_ok) =>
        /\ \A i \in raised_items : At(returned, i) = << >>
        /\ \A k \in 1..Len(process_queue) :
              \E c \in 1..Len(calls) : process_queue[k] \in Range(calls[c])

\* The outcomes C5 is about: content that is no JSON and yields no parsable
\* {...} substring, and a `results` field that is no list.
MalformedOutcomes == { "nojson", "badjson", "notlist" }

RECURSIVE BatchCost(_)
BatchCost(b) == IF b = << >> THEN 0 ELSE ItemTokens(Head(b)) + BatchCost(Tail(b))

\* C11 (as claimed): every batch sent to the generator has a combined token
\* cost of at most MAX_INPUT_BUDGET.
C11_BatchWithinBudget ==
    \A c \in 1..Len(calls) : BatchCost(calls[c]) <= MAX_INPUT_BUDGET

\* C14 (as claimed): when the encoding cannot be obtained, batch_generate_tags
\* does not return a result (it reaches line 137 only for non-empty contents).
C14_ConfigErrorRaises ==
    (~encoding_ok /\ content_token_counts # << >>) => pc # "done"

\* C15 (as claimed): an item with more tokens than INPUT_MAX_TOKENS is in no
\* batch sent to the generator, and its position in the returned list is empty.
C15_OverInputMaxSkipped ==
    \A i \in 0..(NumContents - 1) :
        At(content_token_counts, i) > INPUT_MAX_TOKENS =>
            /\ \A c \in 1..Len(calls) : i \notin Range(calls[c])
            /\ pc = "done" => At(returned, i) = << >>

\* C16: no batch sent to the generator is empty; with empty `contents` the
\* function returns the empty list without a call; when no item fits the
\* budget it returns one empty list per item without a call.
C16_CallsOnlyNonEmpty ==
    /\ \A c \in 1..Len(calls) : calls[c] # << >>
    /\ (pc = "done" /\ content_token_counts = << >>) =>
          returned = << >> /\ calls = << >>
    /\ (pc = "done" /\ \A k \in 1..NumContents :
                           ~FitsBudget(content_token_counts[k])) =>
          /\ returned = [k \in 1..NumContents |-> << >>]
          /\ calls = << >>

\* C16 witness: a run over two items, both over the budget, has returned with
\* the encoding available.
C16_Witness ==
    /\ pc = "done"
    /\ encoding_ok
    /\ NumContents = 2
    /\ \A k \in 1..NumContents : ~FitsBudget(content_token_counts[k])
    /\ Len(returned) = 2

-----------------------------------------------------------------------------
(* Properties of _sanitize_tags, checked under SpecSanitize *)

\* C12: _sanitize_tags applied to the list it returned gives that list again.
C12_SanitizeIdempotent ==
    spc = "again" => san_again = san_returned

\* C12 witness: the list returned holds two tags, one with an underscore
\* inside, and has been sanitized again.
C12_Witness ==
    /\ spc = "again"
    /\ Len(san_returned) = 2
    /\ \E k \in 1..2 : "_" \in Range(san_returned[k])

\* A tag in normal form: non-empty, of a-z, 0-9 and underscore only, with no
\* underscore at either end and no two in a row.
WellFormedTag(t) ==
    /\ t # << >>
    /\ Range(t) \subseteq TagChars
    /\ t[1] # "_" /\ t[Len(t)] # "_"
    /\ \A k \in 1..(Len(t) - 1) : ~(t[k] = "_" /\ t[k + 1] = "_")

\* A list of tags in normal form, each occurring once.
WellFormedTags(tags) ==
    /\ \A k \in 1..Len(tags) : WellFormedTag(tags[k])
    /\ \A j, k \in 1..Len(tags) : tags[j] = tags[k] => j = k

\* C13: the list being built and the list returned hold tags in normal form,
\* each once; an item read appends its tag at the end when it is a string
\* whose tag is not empty and not yet in the list, and changes nothing
\* otherwise, so the tags stand in the order of their first occurrence; the
\* list returned is the list built, and is empty for an input that is no list.
C13_SanitizedWellFormed ==
    [][ /\ WellFormedTags(san_result') /\ WellFormedTags(san_returned')
        /\ (spc = "loop" /\ san_nread' = san_nread + 1) =>
              san_result' =
                 IF san_is_str' /\ san_tag' # << >>
                                /\ san_tag' \notin Range(san_result)
                 THEN Append(san_result, san_tag')
                 ELSE san_result
        /\ (spc = "loop" /\ spc' = "done") => san_returned' = san_result
        /\ (spc = "start" /\ ~raw_is_list) =>
              spc' = "done" /\ san_returned' = << >>
      ]_vars

\* C13 witness: two items were read, the list returned holds both their tags,
\* the first with an underscore inside.
C13_Witness ==
    /\ spc = "done"
    /\ raw_is_list
    /\ san_nread = 2
    /\ san_returned = << << "a", "_", "a" >>, << "a" >> >>

-----------------------------------------------------------------------------
(* Properties of ingest_documents, checked under SpecIngest *)

\* The step is the loop body of ingest_documents run for document d.
HandledIn(d) == ipc = "loop" /\ handled'[d] = handled[d] + 1

KnownCompany(d) == prepared_docs[d].company_name = "TestCorp"

\* The store holds, under the project of document d, a document with d's
\* content and the given tags.
StoredWith(documents, d, tags) ==
    /\ documents[prepared_docs[d].project] # NoDocument
    /\ documents[prepared_docs[d].project].content = prepared_docs[d].content
    /\ documents[prepared_docs[d].project].tags = tags

\* C17: a loop body run for a document whose project holds a stored document
\* of the same content and the same set of tags changes nothing in the store:
\* no document, no chunk, no id handed out.
C17_HashMatchLeavesStore ==
    [][ \A d \in 1..Len(prepared_docs) :
          ( /\ HandledIn(d)
            /\ db_documents[prepared_docs[d].project] # NoDocument
            /\ db_documents[prepared_docs[d].project].content
                  = prepared_docs[d].content
            /\ Range(db_documents[prepared_docs[d].project].tags)
                  = Range(used_tags'[d]) )
          => /\ db_documents' = db_documents
             /\ db_chunks' = db_chunks
             /\ next_id' = next_id
      ]_vars

\* C17 witness: the seeded project was ingested again with its content and its
\* tags in another order, and the store is as seeded.
C17_Witness ==
    /\ ipc = "done"
    /\ Len(prepared_docs) = 1
    /\ prepared_docs[1].project = "p1" /\ prepared_docs[1].content = "c1"
    /\ used_tags[1] = << "b", "a" >>
    /\ StoreSeeded

\* Every future was yielded once and its document handled once, with the tags
\* its own future produced (none when it raised).
EachHandledOnceWithOwnTags ==
    \A d \in 1..Len(prepared_docs) :
        /\ handled[d] = 1
        /\ used_tags[d] = IF task_result[d].raised THEN << >>
                          ELSE task_result[d].tags

C21_UnknownCompanyLeavesStore ==
    [][ \A d \in 1..Len(prepared_docs) :
          (HandledIn(d) /\ ~KnownCompany(d)) =>
              /\ db_documents' = db_documents
              /\ db_chunks' = db_chunks
              /\ next_id' = next_id
      ]_vars

\* C21 witness: a document of an unknown company was handled after a document
\* that changed the seeded project, and ingest_documents has returned.
C21_Witness ==
    /\ ipc = "done"
    /\ Len(prepared_docs) = 2
    /\ ~KnownCompany(1) /\ KnownCompany(2)
    /\ task_state = << "yielded", "yielded" >>
    /\ db_documents["p2"] = NoDocument
    /\ StoredWith(db_documents, 2, << "a" >>)

\* C29 (as claimed): when upsert_document raises in the loop body, the store
\* is as before the body: the stored document and its chunks are still there.
C29_UpsertFailureLeavesStore ==
    [][ \A d \in 1..Len(prepared_docs) :
          (HandledIn(d) /\ d \in upsert_raised' /\ d \notin upsert_raised) =>
              /\ db_documents' = db_documents
              /\ db_chunks' = db_chunks
      ]_vars

-----------------------------------------------------------------------------
(* Properties of ingest_chunks, checked under SpecIngestChunks *)

\* C18 (as claimed): after ingest_chunks returns, no chunk the document had
\* before the call remains, and the document's chunks are those this call
\* inserted.
C18_OldChunksSuperseded ==
    icpc = "returned" =>
        LET now == ChunkIds(get_chunks_by_document_id(db_chunks, document_id))
        IN  /\ now \cap ic_before = { }
            /\ now = ic_inserted

-----------------------------------------------------------------------------
(* Properties of _chunk_markdown, checked under SpecChunk *)

RECURSIVE Flatten(_)
Flatten(seqs) == IF seqs = << >> THEN << >> ELSE Head(seqs) \o Flatten(Tail(seqs))

\* The sentences of the bodies of the chunks, in output order.
BodySentences(chunks) == Flatten([k \in 1..Len(chunks) |-> chunks[k].body])

\* The sentences of the sections, in document order.
DocSentences(sections) ==
    Flatten([k \in 1..Len(sections) |-> sections[k].sentences])

\* The token count of a section's header-plus-body text.
SectionTokens(doc) ==
    TokenCount([header |-> build_chunk_context_header(doc.metadata, NoPart),
                body   |-> doc.sentences])

\* The chunks the step in progress appends to `result`.
NewChunks == SubSeq(result', Len(result) + 1, Len(result'))

\* The step is one iteration of the loop over the sections.
SectionStep == cpc = "loop" /\ doc_pos' = doc_pos + 1

\* C6 (as claimed): every chunk, header and part suffix included, has at most
\* max_tokens tokens, unless its body is one sentence that alone exceeds
\* max_tokens.
C6_ChunksWithinMax ==
    \A k \in 1..Len(result) :
        \/ TokenCount(result[k]) <= max_tokens
        \/ Len(result[k].body) = 1 /\ result[k].body[1].tok > max_tokens

\* C7: the sentences of the chunk bodies, in output order, are the sentences of
\* the sections processed so far, in document order, each once; at the return
\* they are the sentences of the whole document.
C7_SentencesPreserved ==
    /\ cpc \in { "loop", "done" } =>
          BodySentences(result) = DocSentences(SubSeq(docs, 1, doc_pos - 1))
    /\ cpc = "done" => BodySentences(result) = DocSentences(docs)

\* C7 witness: a document of two sections has been chunked, and a section was
\* split into at least two parts.
C7_Witness ==
    /\ cpc = "done"
    /\ Len(docs) = 2
    /\ \E k \in 1..Len(result) : result[k].header.part = << 2 >>

\* C8 (as claimed): every chunk _chunk_text_by_sentences returns holds at least
\* one sentence. Its chunks are the bodies of the chunks that carry a part
\* number.
C8_NoEmptyChunk ==
    \A k \in 1..Len(result) :
        result[k].header.part # NoPart => result[k].body # << >>

\* C9: the k-th chunk a split section adds carries the section's context header
\* and the part number k: 1, 2, ..., n in emission order, from 1 again for each
\* split section.
C9_PartNumbers ==
    [][ (SectionStep /\ SectionTokens(docs[doc_pos]) > max_tokens) =>
            \A k \in 1..Len(NewChunks) :
                /\ NewChunks[k].header.lines =
                      build_chunk_context_header(docs[doc_pos].metadata,
                                                 NoPart).lines
                /\ NewChunks[k].header.part = << k >>
      ]_vars

\* C9 witness: two sections were split, each into at least two parts.
C9_Witness ==
    /\ cpc = "done"
    /\ \E k \in 2..(Len(result) - 1) :
          /\ result[k].header.part = << 2 >>
          /\ result[k + 1].header.part = << 1 >>
          /\ result[Len(result)].header.part # << 1 >>

\* C10: a section of at most max_tokens tokens, header included, adds exactly
\* one chunk, its header, a newline and its content, without part number; a
\* section adds chunks with part numbers only when it has more tokens.
C10_SmallSectionOneChunk ==
    [][ SectionStep =>
          /\ SectionTokens(docs[doc_pos]) <= max_tokens =>
                NewChunks =
                  << [header |-> build_chunk_context_header(
                                     docs[doc_pos].metadata, NoPart),
                      body   |-> docs[doc_pos].sentences] >>
          /\ (\E k \in 1..Len(NewChunks) : NewChunks[k].header.part # NoPart) =>
                SectionTokens(docs[doc_pos]) > max_tokens
      ]_vars

\* C10 witness: a section of exactly max_tokens tokens under a heading was kept
\* whole, after a section that was split.
C10_Witness ==
    /\ cpc = "done"
    /\ Len(result) >= 2
    /\ result[Len(result)].header.part = NoPart
    /\ result[Len(result)].header.lines # << >>
    /\ TokenCount(result[Len(result)]) = max_tokens
    /\ result[1].header.part = << 1 >>

-----------------------------------------------------------------------------
(* Further properties of batch_generate_tags, checked under SpecTags *)

\* The batches sent so far, concatenated.
SentIndices == Flatten(calls)

StrictlyAscending(seq) == \A j, k \in 1..Len(seq) : j < k => seq[j] < seq[k]

\* The indices whose token count is at most MAX_INPUT_BUDGET, ascending.
Processable ==
    SelectSeq([k \in 1..NumContents |-> k - 1],
              LAMBDA i : At(content_token_counts, i) <= MAX_INPUT_BUDGET)

\* The batches a greedy packing of the processable indices forms: an index
\* joins the current batch unless the batch is not empty and would pass
\* MAX_INPUT_BUDGET with it.
RECURSIVE GreedyBatches(_, _, _, _)
GreedyBatches(queue, current, current_cost, done) ==
    IF queue = << >>
    THEN IF current = << >> THEN done ELSE Append(done, current)
    ELSE LET cost == At(content_token_counts, Head(queue)) + PER_ITEM_OVERHEAD_TOKENS
         IN  IF current # << >> /\ current_cost + cost > MAX_INPUT_BUDGET
             THEN GreedyBatches(Tail(queue), << Head(queue) >>, cost,
                                Append(done, current))
             ELSE GreedyBatches(Tail(queue), Append(current, Head(queue)),
                                current_cost + cost, done)

\* The step reads one entry of the response of the flush in progress.
EntryStep == pc = "apply" /\ nread' = nread + 1

\* C23: a generator call is made only between flushes, when the response of
\* the call before it has been applied and its flush has ended, and it sends
\* the one batch handed to flush_batch; the indices sent, in the order sent,
\* are strictly ascending, so no batch is sent twice, not after a failure
\* either; and at the return there were as many calls as batches.
C23_BatchesSequentialOnce ==
    [][ /\ calls' # calls =>
              /\ pc = "call" /\ outcome = "none" /\ nread = 0
              /\ calls' = Append(calls, batch_indices)
              /\ pc' = "apply"
        /\ StrictlyAscending(Flatten(calls'))
        /\ (pc' = "done" /\ encoding_ok) =>
              Len(calls') = Len(GreedyBatches(Processable, << >>, 0, << >>))
      ]_vars

\* C23 witness: the call for the first of two batches raised, the second batch
\* was sent after it and its response gave its item tags.
C23_Witness ==
    /\ pc = "done"
    /\ calls = << << 0 >>, << 1 >> >>
    /\ raised_items = { 0 }
    /\ At(returned, 1) # << >>

\* C24 (as claimed): in a response that contains objects, an object whose
\* index is no integer or is outside 0..len(contents)-1 writes no position,
\* and an object with an integer index inside that range writes its tags there.
C24_InvalidIndexDropped ==
    [][ (EntryStep /\ contains_objects /\ item'.isObj) =>
            IF item'.index.kind = "int" /\ 0 <= item'.index.v
                                        /\ item'.index.v < Len(results)
            THEN At(results', item'.index.v) = sanitize_tags(item'.tags)
            ELSE results' = results
      ]_vars

\* C25 (as claimed): in a response without objects, entry j writes the j-th
\* index of the batch and nothing else, an entry beyond the batch writes
\* nothing, and when the flush ends the batch items beyond the response hold
\* the empty list.
C25_PositionalByBatchOrder ==
    [][ /\ (EntryStep /\ ~contains_objects) =>
              results' = IF nread < Len(batch_indices)
                         THEN [results EXCEPT ![batch_indices[nread + 1] + 1] =
                                                  sanitize_tags(item'.tags)]
                         ELSE results
        /\ (pc = "apply" /\ pc' # "apply" /\ outcome = "list"
                         /\ ~contains_objects) =>
              \A j \in (nread + 1)..Len(batch_indices) :
                  At(results, batch_indices[j]) = << >>
      ]_vars

\* C27: no batch sent is empty; the batches sent so far, concatenated, are the
\* first of the processable indices in ascending order; at the return they are
\* all of them, so each processable index is in one batch and no skipped index
\* is in any.
C27_BatchesPartitionProcessable ==
    /\ \A c \in 1..Len(calls) : calls[c] # << >>
    /\ Len(SentIndices) <= Len(Processable)
    /\ SentIndices = SubSeq(Processable, 1, Len(SentIndices))
    /\ (pc = "done" /\ encoding_ok) => SentIndices = Processable

\* C27 witness: two items that do not fit one batch were sent in two batches.
C27_Witness ==
    /\ pc = "done"
    /\ Len(calls) = 2
    /\ SentIndices = << 0, 1 >>
    /\ BatchCost(SentIndices) > MAX_INPUT_BUDGET

\* C28 (as claimed): reading an entry of a batch's response changes no result
\* position outside that batch.
C28_OnlyOwnBatchWritten ==
    [][ EntryStep =>
            \A i \in 0..(Len(results) - 1) :
                i \notin Range(batch_indices) => At(results', i) = At(results, i)
      ]_vars

-----------------------------------------------------------------------------
(* Further properties of _chunk_text_by_sentences, checked under SpecChunk *)

\* The runs of sentences the step's split section was packed into.
NewRuns == [k \in 1..Len(NewChunks) |-> NewChunks[k].body]

\* C26: of the runs a split section is packed into, each with two or more
\* sentences has at most max_tokens tokens, and each run but the last has more
\* than max_tokens tokens together with the first sentence of the next.
C26_GreedyBounded ==
    [][ (SectionStep /\ SectionTokens(docs[doc_pos]) > max_tokens) =>
            /\ \A k \in 1..Len(NewRuns) :
                  Len(NewRuns[k]) >= 2 => SumTokens(NewRuns[k]) <= max_tokens
            /\ \A k \in 1..(Len(NewRuns) - 1) :
                  /\ NewRuns[k + 1] # << >>
                  /\ SumTokens(NewRuns[k]) + NewRuns[k + 1][1].tok > max_tokens
      ]_vars

\* C26 witness: one split section was packed into a run of two sentences, and
\* another into two runs.
C26_Witness ==
    /\ cpc = "done"
    /\ \E k \in 1..Len(result) :
          result[k].header.part = << 1 >> /\ Len(result[k].body) = 2
    /\ \E k \in 1..Len(result) :
          result[k].header.part = << 2 >> /\ Len(result[k - 1].body) = 1

-----------------------------------------------------------------------------
(* Properties of repeated calls of ingest_documents, checked under SpecReingest *)

\* The store holds document d of prepared_docs, with its content.
StoredDoc(d) ==
    /\ db_documents[prepared_docs[d].project] # NoDocument
    /\ db_documents[prepared_docs[d].project].content = prepared_docs[d].content

\* C30 (as claimed): when a later call of ingest_documents on the unchanged
\* folder has returned without meeting a failure, every stored document whose
\* embedding or chunk insert failed in a call has chunks in the store.
C30_LaterRunRepairs ==
    (run > 1 /\ ipc = "done" /\ run_clean) =>
        \A d \in insert_failed :
            StoredDoc(d) =>
                get_chunks_by_document_id(
                    db_chunks, db_documents[prepared_docs[d].project].id) # { }

-----------------------------------------------------------------------------
(* Properties of prune_documents.main, checked under SpecPrune *)

\* The user has agreed: by --yes, or by an answer that is y or Y between blanks.
UserConfirmed ==
    skip_confirm \/ resp \in { << "y" >>, << "Y" >>, << " ", "y", " " >>,
                               << " ", "Y", " " >> }

\* The step calls delete_all_rows on the table.
DeleteAttempted(t) ==
    /\ Len(attempts') = Len(attempts) + 1
    /\ attempts'[Len(attempts')].table = t

\* C22: a delete is attempted only after the user has confirmed; the delete of
\* documents is attempted only when the delete of chunks came before it and
\* succeeded, and the first delete is that of chunks; a table changes only by
\* a delete of that table; when the user declines nothing is attempted and no
\* table changes; a failed delete ends the run with exit code 1, and after the
\* run has ended nothing is attempted and no table changes.
C22_ChunksThenDocuments ==
    [][ /\ attempts' # attempts =>
              /\ UserConfirmed /\ ppc = "delete"
              /\ \E t \in { "chunks", "documents" } : DeleteAttempted(t)
              /\ SubSeq(attempts', 1, Len(attempts)) = attempts
        /\ DeleteAttempted("documents") =>
              attempts = << [table |-> "chunks", ok |-> TRUE] >>
        /\ DeleteAttempted("chunks") => attempts = << >>
        /\ \A t \in { "chunks", "documents" } :
              tables'[t] # tables[t] =>
                  DeleteAttempted(t) /\ attempts'[Len(attempts')].ok
        /\ ~UserConfirmed => (tables' = tables /\ attempts' = attempts)
        /\ (attempts' # attempts /\ ~attempts'[Len(attempts')].ok) =>
              (ppc' = "exit" /\ exit_code' = << 1 >> /\ tables' = tables)
        /\ ppc = "exit" => (tables' = tables /\ attempts' = attempts)
      ]_vars

\* C22 witness: the user was asked and agreed, and main returned after it had
\* deleted the rows of chunks and then those of documents.
C22_Witness ==
    /\ ppc = "returned"
    /\ ~skip_confirm /\ resp = << " ", "Y", " " >>
    /\ attempts = << [table |-> "chunks", ok |-> TRUE],
                     [table |-> "documents", ok |-> TRUE] >>
    /\ chunks_empty /\ documents_empty

=============================================================================
